---- MODULE Spec2Model ----
(***************************************************************************)
(* Model of the CIFAR-10 data preparation notebook                         *)
(* "Tutorials/MLADS-spring-2018/1. load_data.ipynb": the fetch cell, the   *)
(* Spark map/collect over processBatch, the manifest writers, the mean     *)
(* aggregation and the sequential test split.                              *)
(*                                                                         *)
(* Sizes are scaled: imgSize stands for 32 and RowsPerBatch for 10000.     *)
(* Every literal of the notebook that is derived from one of them (the     *)
(* stride (ifile - 1) * 10000, the divisor 50 * 1000, 3 * 32 * 32) is      *)
(* derived from the scaled value in the same way.                          *)
(***************************************************************************)
EXTENDS Integers, Sequences, FiniteSets, TLC

\* ------------------------------------------------------------- bounds
\* Scaled stand-in for imgSize = 32.
imgSize == 2
\* Scaled stand-in for the 10000 rows of a batch file.
RowsPerBatch == 2
\* Largest pad explored for a single saveImage call.
MaxPad == 4

\* ---------------------------------------------------- program constants
BatchRangeStart == 1
BatchRangeStop == 6
TrainPad == 4
TestPad == 0
PadValue == 128
NameWidth == 5

numFeature == imgSize * imgSize * 3
BatchStride == RowsPerBatch
TrainCount == (BatchRangeStop - BatchRangeStart) * RowsPerBatch

\* The test batch file, next to data_batch_1 .. data_batch_5.
TestFile == 0
BatchIds == BatchRangeStart..(BatchRangeStop - 1)
FileIds == BatchIds \cup {TestFile}
Rows == 0..(RowsPerBatch - 1)
Chan == 0..2
Px == 0..(imgSize - 1)

\* ------------------------------------------------ the dataset (input)
\* data['data'][i, :] of the batch file: a flat channel-major row of bytes.
DataByte(s, file, i, j) == (s * 97 + file * 53 + i * 101 + j * (7 + 12 * s)) % 256

DataRow(s, file, i) == [j \in 0..(numFeature - 1) |-> DataByte(s, file, i, j)]

\* data['labels'][i] of the batch file.
DataLabel(s, file, i) == (s + 3 * file + 7 * i) % 10

\* ------------------------------------------------------- saveImage
ZeroGrid == [c \in Chan |-> [y \in Px |-> [x \in Px |-> 0]]]

reshape(data) ==
  [c \in Chan |-> [y \in Px |-> [x \in Px |->
     data[c * imgSize * imgSize + y * imgSize + x]]]]

\* Mutation: the grid is assigned instead of added (= for +=).
AddGridOverwrite(a, b) == b

AddGrid(a, b) == [c \in Chan |-> [y \in Px |-> [x \in Px |-> a[c][y][x] + b[c][y][x]]]]

np_pad(pix, pad) ==
  [c \in Chan |-> [y \in 0..(imgSize + 2 * pad - 1) |-> [x \in 0..(imgSize + 2 * pad - 1) |->
     IF y >= pad /\ y < pad + imgSize /\ x >= pad /\ x < pad + imgSize
     THEN pix[c][y - pad][x - pad]
     ELSE PadValue]]]

\* Mutation: row and column swapped in the pixel loop.
PixelAtTransposed(pixData, x, y) == <<pixData[0][x][y], pixData[1][x][y], pixData[2][x][y]>>

PixelAt(pixData, x, y) == <<pixData[0][y][x], pixData[1][y][x], pixData[2][y][x]>>

\* The raster img.save writes: Image.new('RGB', (w, w)) filled pixel by pixel.
saveImage(data, pad) ==
  LET pixData == IF pad > 0 THEN np_pad(reshape(data), pad) ELSE reshape(data)
      w == imgSize + 2 * pad
  IN [size |-> <<w, w>>,
      pixels |-> [x \in 0..(w - 1) |-> [y \in 0..(w - 1) |-> PixelAt(pixData, x, y)]]]

\* What img.save(filename) leaves on disk, named by the call that made it:
\* the raster is saveImage(DataRow(seed, file, i), pad).
SavedAs(file, i, pad) == [file |-> file, i |-> i, pad |-> pad]
FileRaster(s, w) == saveImage(DataRow(s, w.file, w.i), w.pad)

\* --------------------------------------------------------- file names
RECURSIVE Digits(_)
Digits(n) == IF n < 10 THEN <<n>> ELSE Digits(n \div 10) \o <<n % 10>>

\* '%05d' % n: decimal digits, zero-padded on the left to at least five.
Fmt05d(n) ==
  LET d == Digits(n)
  IN IF Len(d) >= NameWidth THEN d ELSE [j \in 1..(NameWidth - Len(d)) |-> 0] \o d

\* Mutation: a stride one short of the batch length.
GlobalIndexShortStride(i, ifile) == i + (ifile - 1) * (BatchStride - 1)

GlobalIndex(i, ifile) == i + (ifile - 1) * BatchStride

\* os.path.join(os.path.abspath(foldername), '%05d.png' % n)
ImagePath(dir, folder, n) == [dir |-> dir \o <<folder>>, name |-> Fmt05d(n), ext |-> "png"]

\* Mutation: the line is inserted at the front of the list.
AppendLineFront(lines, path, label) == <<[path |-> path, label |-> label]>> \o lines

\* "%s\t%d\n" % (filename, label)
AppendLine(lines, path, label) == Append(lines, [path |-> path, label |-> label])

\* Mutation: every writelines starts the file over.
writelinesTruncating(content, lines) == lines

\* mapFile.writelines(lines) on a file opened for writing.
writelines(content, lines) == content \o lines

\* np.zeros((3, imgSize, imgSize)) / (50 * 1000): the exact quotient of each
\* entry, kept as <<integer part, remainder>> over the divisor n.
DivideGrid(g, n) ==
  [c \in Chan |-> [y \in Px |-> [x \in Px |-> <<g[c][y][x] \div n, g[c][y][x] % n>>]]]

\* Mutation: the last element is left out.
RangeListShort(lo, hi) == [j \in 1..(hi - lo - 1) |-> lo + j - 1]

\* range(lo, hi) as a list.
RangeList(lo, hi) == [j \in 1..(hi - lo) |-> lo + j - 1]

\* --------------------------------------------------------------- paths
DataDir == <<"data", "CIFAR-10">>
ArchiveName == "cifar-10-python.tar.gz"
DownloadName == "delete.me"

\* os.chdir(".."): the parent of the root is the root.
Parent(dir) == IF Len(dir) = 0 THEN dir ELSE SubSeq(dir, 1, Len(dir) - 1)

\* Working directories the notebook may be started in.
StartDirs == {<<>>, <<"home">>, <<"home", "dsvm">>, <<"home", "dsvm", "notebooks">>}
HomeDir == <<"home", "dsvm">>

\* The alternative dataset contents explored.
Seeds == {0, 1}

\* --------------------------------------------------------------- state
VARIABLES
  seed,             \* which dataset content the archive holds
  pc,               \* position of the notebook (the coordinating process)
  fetchMode,        \* "copy" (lines 84-86) or "download" (line 82)
  cwd,              \* process working directory
  cwd0,             \* working directory when the fetch cell started
  raised,           \* an exception is propagating out of the try block
  obtained,         \* the fetch cell obtained the archive (copy or download done)
  archives,         \* paths of archive copies on disk
  extractedAt,      \* directories that hold an extracted cifar-10-batches-py
  foldername,       \* global foldername
  batch_file_names, \* global batch_file_names
  task,             \* per Spark task: pc, i, mapFileArray
  acc,              \* per Spark task: its local dataMean
  runs,             \* per Spark task: how many times processBatch was entered
  returned,         \* results gathered by the driver, in completion order
  image_rdd,        \* global image_rdd
  images,           \* image files on disk: path -> the (file, i, pad) of the
                    \* saveImage call whose raster img.save wrote there
  img,              \* the raster built by the single saveImage call
  imageWrites,      \* log of img.save calls
  present,          \* names of the output files that exist
  train_map,        \* content of train_map.txt
  test_map,         \* content of test_map.txt
  mean_xml,         \* content of CIFAR-10_mean.xml
  k,                \* loop index of the coordinating process
  dataMean,         \* global dataMean (the running sum)
  meanImg,          \* global dataMean after the division
  mapItems,         \* global mapItems
  call              \* arguments of a single saveImage call

vars == <<seed, pc, fetchMode, cwd, cwd0, raised, obtained, archives, extractedAt, foldername,
          batch_file_names, task, acc, runs, returned, image_rdd, images, img, imageWrites,
          present, train_map, test_map, mean_xml, k, dataMean, meanImg, mapItems, call>>

fetchVars == <<cwd, raised, obtained, archives, extractedAt>>
sparkVars == <<batch_file_names, task, acc, runs, returned, image_rdd>>
outVars == <<present, train_map, test_map, mean_xml>>
meanVars == <<dataMean, meanImg>>
inputVars == <<seed, fetchMode, cwd0, call, img>>

NoCall == [file |-> TestFile, i |-> 0, pad |-> 0, mean |-> FALSE]
ZeroMean == DivideGrid(ZeroGrid, 1)

InitCommon ==
  /\ raised = FALSE
  /\ obtained = FALSE
  /\ archives = {}
  /\ extractedAt = {}
  /\ foldername = ""
  /\ batch_file_names = <<>>
  /\ task = <<>>
  /\ acc = <<>>
  /\ runs = <<>>
  /\ returned = <<>>
  /\ image_rdd = <<>>
  /\ images = <<>>
  /\ img = <<>>
  /\ imageWrites = {}
  /\ present = {}
  /\ train_map = <<>>
  /\ test_map = <<>>
  /\ mean_xml = <<>>
  /\ k = 0
  /\ dataMean = ZeroGrid
  /\ meanImg = ZeroMean
  /\ mapItems = <<>>

\* The notebook as written: the archive is copied from /data.
Init ==
  /\ InitCommon
  /\ seed \in Seeds
  /\ pc = "chdir"
  /\ fetchMode = "copy"
  /\ cwd = HomeDir
  /\ cwd0 = cwd
  /\ call = NoCall

\* ------------------------------------------------------ the fetch cell
\* os.chdir(data_dir); data_dir exists (lines 75-76) but may not be enterable.
FetchChdir ==
  /\ pc = "chdir"
  /\ \E ok \in BOOLEAN :
       /\ cwd' = IF ok THEN cwd \o DataDir ELSE cwd
       /\ raised' = ~ok
       /\ pc' = IF ~ok THEN "finally"
                ELSE IF fetchMode = "copy" THEN "copyfile" ELSE "urlretrieve"
  /\ UNCHANGED <<obtained, archives, extractedAt, foldername, k, mapItems, images, imageWrites>>
  /\ UNCHANGED <<sparkVars, outVars, meanVars, inputVars>>

\* shutil.copyfile('/data/cifar-10-python.tar.gz', 'cifar-10-python.tar.gz')
\* A failed copy may or may not leave a partial destination file.
FetchCopyfile ==
  /\ pc = "copyfile"
  /\ \E ok \in BOOLEAN, partial \in BOOLEAN :
       /\ ok => partial
       /\ archives' = IF partial THEN archives \cup {cwd \o <<ArchiveName>>} ELSE archives
       /\ raised' = ~ok
       /\ obtained' = ok
       /\ pc' = IF ok THEN "open" ELSE "finally"
  /\ UNCHANGED <<cwd, extractedAt, foldername, k, mapItems, images, imageWrites>>
  /\ UNCHANGED <<sparkVars, outVars, meanVars, inputVars>>

\* with tarfile.open('cifar-10-python.tar.gz') as tar:
FetchOpen ==
  /\ pc = "open"
  /\ \E ok \in BOOLEAN :
       /\ raised' = ~ok
       /\ pc' = IF ok THEN "extractall" ELSE "finally"
  /\ UNCHANGED <<cwd, obtained, archives, extractedAt, foldername, k, mapItems, images, imageWrites>>
  /\ UNCHANGED <<sparkVars, outVars, meanVars, inputVars>>

\* tar.extractall()
FetchExtractall ==
  /\ pc = "extractall"
  /\ \E ok \in BOOLEAN :
       /\ extractedAt' = IF ok THEN extractedAt \cup {cwd} ELSE extractedAt
       /\ raised' = ~ok
       /\ pc' = "finally"
  /\ UNCHANGED <<cwd, obtained, archives, foldername, k, mapItems, images, imageWrites>>
  /\ UNCHANGED <<sparkVars, outVars, meanVars, inputVars>>

\* finally: os.chdir("../.."); a pending exception then ends the notebook.
FetchFinally ==
  /\ pc = "finally"
  /\ cwd' = Parent(Parent(cwd))
  /\ pc' = IF raised THEN "aborted" ELSE "cell3"
  /\ raised' = FALSE
  /\ UNCHANGED <<obtained, archives, extractedAt, foldername, k, mapItems, images, imageWrites>>
  /\ UNCHANGED <<sparkVars, outVars, meanVars, inputVars>>

\* ---------------------------------------------- downloadData (line 82)
\* fname, h = urlretrieve(src, './delete.me'); a failed download raises
\* before the try block and may leave a partial file.
DownloadUrlretrieve ==
  /\ pc = "urlretrieve"
  /\ \E ok \in BOOLEAN, partial \in BOOLEAN :
       /\ ok => partial
       /\ archives' = IF partial THEN archives \cup {cwd \o <<DownloadName>>} ELSE archives
       /\ raised' = ~ok
       /\ obtained' = ok
       /\ pc' = IF ok THEN "dl_open" ELSE "finally"
  /\ UNCHANGED <<cwd, extractedAt, foldername, k, mapItems, images, imageWrites>>
  /\ UNCHANGED <<sparkVars, outVars, meanVars, inputVars>>

\* with tarfile.open(fname) as tar:
DownloadOpen ==
  /\ pc = "dl_open"
  /\ \E ok \in BOOLEAN :
       /\ raised' = ~ok
       /\ pc' = IF ok THEN "dl_extractall" ELSE "dl_remove"
  /\ UNCHANGED <<cwd, obtained, archives, extractedAt, foldername, k, mapItems, images, imageWrites>>
  /\ UNCHANGED <<sparkVars, outVars, meanVars, inputVars>>

\* tar.extractall()
DownloadExtractall ==
  /\ pc = "dl_extractall"
  /\ \E ok \in BOOLEAN :
       /\ extractedAt' = IF ok THEN extractedAt \cup {cwd} ELSE extractedAt
       /\ raised' = ~ok
       /\ pc' = "dl_remove"
  /\ UNCHANGED <<cwd, obtained, archives, foldername, k, mapItems, images, imageWrites>>
  /\ UNCHANGED <<sparkVars, outVars, meanVars, inputVars>>

\* finally: os.remove(fname)
DownloadRemove ==
  /\ pc = "dl_remove"
  /\ archives' = archives \ {cwd \o <<DownloadName>>}
  /\ pc' = "finally"
  /\ UNCHANGED <<cwd, raised, obtained, extractedAt, foldername, k, mapItems, images, imageWrites>>
  /\ UNCHANGED <<sparkVars, outVars, meanVars, inputVars>>

FetchCopy == FetchChdir \/ FetchCopyfile \/ FetchOpen \/ FetchExtractall \/ FetchFinally
FetchDownload == DownloadUrlretrieve \/ DownloadOpen \/ DownloadExtractall \/ DownloadRemove

\* The fetch cell alone, started in any directory, with either way of
\* obtaining the archive.
InitFetch ==
  /\ InitCommon
  /\ seed \in Seeds
  /\ pc = "chdir"
  /\ fetchMode \in {"copy", "download"}
  /\ cwd \in StartDirs
  /\ cwd0 = cwd
  /\ call = NoCall

NextFetch == FetchCopy \/ FetchDownload

SpecFetch == InitFetch /\ [][NextFetch]_vars

\* ------------------------------------------------------------- cell 3
\* foldername = 'train'; os.makedirs(foldername) if missing.
Cell3 ==
  /\ pc = "cell3"
  /\ foldername' = "train"
  /\ pc' = "submit"
  /\ UNCHANGED <<k, mapItems, images, imageWrites>>
  /\ UNCHANGED <<fetchVars, sparkVars, outVars, meanVars, inputVars>>

\* ------------------------------------------------- cell 4: the Spark job
Tasks == DOMAIN task

\* open(filename, 'rb') relative to the working directory.
BatchFileExists == (cwd \o DataDir) \in extractedAt

\* Mutation: every call adds into one accumulator shared by all tasks.
MeanTargetShared(t) == 1

\* The accumulator a saveImage call of task t adds into: the dataMean that
\* processBatch created (line 144) and passes as mean= (line 153).
MeanTarget(t) == t

\* batch_file_names = [1, 2, 3, 4, 5]; spark.sparkContext.parallelize(...).map(processBatch):
\* one task per element.
SubmitJob ==
  /\ pc = "submit"
  /\ batch_file_names' = RangeList(BatchRangeStart, BatchRangeStop)
  /\ task' = [t \in DOMAIN batch_file_names' |-> [pc |-> "idle", i |-> 0, mapFileArray |-> <<>>]]
  /\ acc' = [t \in DOMAIN batch_file_names' |-> ZeroGrid]
  /\ runs' = [t \in DOMAIN batch_file_names' |-> 0]
  /\ pc' = "collecting"
  /\ UNCHANGED <<returned, image_rdd, foldername, k, mapItems, images, imageWrites>>
  /\ UNCHANGED <<fetchVars, outVars, meanVars, inputVars>>

\* A task whose call raised: nothing of its frame remains.
FailedTask == [pc |-> "failed", i |-> 0, mapFileArray |-> <<>>]

\* processBatch, lines 143-148: fresh locals, then open and unpickle the
\* batch file, which may fail.
UnitStart(t) ==
  /\ pc = "collecting"
  /\ task[t].pc = "idle"
  /\ runs' = [runs EXCEPT ![t] = @ + 1]
  /\ acc' = [acc EXCEPT ![t] = ZeroGrid]
  /\ \E ok \in BOOLEAN :
       task' = [task EXCEPT ![t] =
                  IF ok /\ BatchFileExists
                  THEN [pc |-> "running", i |-> 0, mapFileArray |-> <<>>]
                  ELSE FailedTask]
  /\ UNCHANGED <<batch_file_names, returned, image_rdd, pc, foldername, k, mapItems,
                 images, imageWrites>>
  /\ UNCHANGED <<fetchVars, outVars, meanVars, inputVars>>

\* processBatch, lines 149-156: one iteration of the loop.  saveImage adds
\* the grid into the accumulator and writes the file; when img.save fails
\* the exception ends the call and its locals are gone.
UnitSaveImage(t) ==
  /\ pc = "collecting"
  /\ task[t].pc = "running"
  /\ task[t].i < RowsPerBatch
  /\ LET ifile == batch_file_names[t]
         i == task[t].i
         filename == ImagePath(cwd, foldername, GlobalIndex(i, ifile))
         image_data == DataRow(seed, ifile, i)
         label == DataLabel(seed, ifile, i)
     IN \E ok \in BOOLEAN :
             IF ok
             THEN /\ acc' = [acc EXCEPT ![MeanTarget(t)] = AddGrid(@, reshape(image_data))]
                  /\ images' = (filename :> SavedAs(ifile, i, TrainPad)) @@ images
                  /\ imageWrites' = imageWrites \cup
                       {[path |-> filename, t |-> t, file |-> ifile, i |-> i,
                         index |-> GlobalIndex(i, ifile)]}
                  /\ task' = [task EXCEPT ![t].i = i + 1,
                                ![t].mapFileArray = AppendLine(@, filename, label)]
             ELSE /\ task' = [task EXCEPT ![t] = FailedTask]
                  /\ acc' = [acc EXCEPT ![t] = ZeroGrid]
                  /\ UNCHANGED <<images, imageWrites>>
  /\ UNCHANGED <<batch_file_names, runs, returned, image_rdd, pc, foldername, k, mapItems>>
  /\ UNCHANGED <<fetchVars, outVars, meanVars, inputVars>>

\* return (mapFileArray, dataMean): the result reaches the driver.
UnitReturn(t) ==
  /\ pc = "collecting"
  /\ task[t].pc = "running"
  /\ task[t].i = RowsPerBatch
  /\ returned' = Append(returned, <<task[t].mapFileArray, acc[t]>>)
  /\ task' = [task EXCEPT ![t].pc = "returned"]
  /\ UNCHANGED <<batch_file_names, acc, runs, image_rdd, pc, foldername, k, mapItems,
                 images, imageWrites>>
  /\ UNCHANGED <<fetchVars, outVars, meanVars, inputVars>>

\* Mutation: collect() returns what it has once every task has ended.
AllEnded == \A t \in Tasks : task[t].pc \in {"returned", "failed"}

\* collect() waits for the result of every task.
AllReturned == \A t \in Tasks : task[t].pc = "returned"
SomeFailed == \E t \in Tasks : task[t].pc = "failed"

\* collect() returns once every task has returned.  The list is taken in
\* completion order, so every order of the five results is explored, the
\* order of batch_file_names among them.
Collect ==
  /\ pc = "collecting"
  /\ AllReturned
  /\ image_rdd' = returned
  /\ pc' = "open_train"
  /\ UNCHANGED <<batch_file_names, task, acc, runs, returned, foldername, k, mapItems,
                 images, imageWrites>>
  /\ UNCHANGED <<fetchVars, outVars, meanVars, inputVars>>

\* collect() raises when a task has failed: the cell, and the notebook, stop.
CollectRaise ==
  /\ pc = "collecting"
  /\ SomeFailed
  /\ pc' = "aborted"
  /\ UNCHANGED <<foldername, k, mapItems, images, imageWrites>>
  /\ UNCHANGED <<fetchVars, sparkVars, outVars, meanVars, inputVars>>

\* with open('train_map.txt', 'w') as mapFile:
OpenTrainMap ==
  /\ pc = "open_train"
  /\ present' = present \cup {"train_map.txt"}
  /\ train_map' = <<>>
  /\ k' = 1
  /\ pc' = "write_train"
  /\ UNCHANGED <<test_map, mean_xml, foldername, mapItems, images, imageWrites>>
  /\ UNCHANGED <<fetchVars, sparkVars, meanVars, inputVars>>

\* for row in image_rdd: mapFile.writelines(row[0])
WriteFragment ==
  /\ pc = "write_train"
  /\ k <= Len(image_rdd)
  /\ train_map' = writelines(train_map, image_rdd[k][1])
  /\ k' = k + 1
  /\ UNCHANGED <<pc, present, test_map, mean_xml, foldername, mapItems, images, imageWrites>>
  /\ UNCHANGED <<fetchVars, sparkVars, meanVars, inputVars>>

\* ------------------------------------------------ cell 5: the mean image
\* dataMean = np.zeros((3, imgSize, imgSize))
MeanInit ==
  /\ pc = "write_train"
  /\ k > Len(image_rdd)
  /\ dataMean' = ZeroGrid
  /\ k' = 1
  /\ pc' = "mean_sum"
  /\ UNCHANGED <<meanImg, foldername, mapItems, images, imageWrites>>
  /\ UNCHANGED <<fetchVars, sparkVars, outVars, inputVars>>

\* for row in image_rdd: dataMean += row[1]
MeanAdd ==
  /\ pc = "mean_sum"
  /\ k <= Len(image_rdd)
  /\ dataMean' = AddGrid(dataMean, image_rdd[k][2])
  /\ k' = k + 1
  /\ UNCHANGED <<pc, meanImg, foldername, mapItems, images, imageWrites>>
  /\ UNCHANGED <<fetchVars, sparkVars, outVars, inputVars>>

\* dataMean = dataMean / (50 * 1000)
MeanDivide ==
  /\ pc = "mean_sum"
  /\ k > Len(image_rdd)
  /\ meanImg' = DivideGrid(dataMean, TrainCount)
  /\ pc' = "save_mean"
  /\ UNCHANGED <<dataMean, k, foldername, mapItems, images, imageWrites>>
  /\ UNCHANGED <<fetchVars, sparkVars, outVars, inputVars>>

RECURSIVE Pow10(_)
Pow10(n) == IF n = 0 THEN 1 ELSE 10 * Pow10(n - 1)

\* The decimal exponent of num / den > 0.
RECURSIVE Exp10(_, _)
Exp10(num, den) ==
  IF num >= 10 * den THEN Exp10(num, 10 * den) + 1
  ELSE IF num < den THEN Exp10(10 * num, den) - 1
  ELSE 0

\* '%e' % v for v = q + r / n >= 0: a seven digit mantissa d.dddddd and a
\* decimal exponent, the mantissa rounded to nearest (ties to even).
FmtE(qr, n) ==
  LET num == qr[1] * n + qr[2]
  IN IF num = 0 THEN [mantissa |-> 0, exponent |-> 0]
     ELSE LET e == Exp10(num, n)
              scaledNum == IF e <= 6 THEN num * Pow10(6 - e) ELSE num
              scaledDen == IF e <= 6 THEN n ELSE n * Pow10(e - 6)
              fl == scaledNum \div scaledDen
              rem2 == 2 * (scaledNum % scaledDen)
              m == IF rem2 > scaledDen \/ (rem2 = scaledDen /\ fl % 2 = 1) THEN fl + 1 ELSE fl
          IN IF m = Pow10(7) THEN [mantissa |-> Pow10(6), exponent |-> e + 1]
             ELSE [mantissa |-> m, exponent |-> e]

\* np.reshape(data, (imgSize * imgSize * 3)): row-major over (channel, row, column).
Flatten(g) ==
  [j \in 1..numFeature |->
     g[(j - 1) \div (imgSize * imgSize)][((j - 1) \div imgSize) % imgSize][(j - 1) % imgSize]]

\* saveMean(fname, data): the opencv_storage document.
saveMean(data, n) ==
  [Channel |-> 3, Row |-> imgSize, Col |-> imgSize,
   MeanImg |-> [type_id |-> "opencv-matrix", rows |-> 1, cols |-> imgSize * imgSize * 3,
                dt |-> "f",
                data |-> [j \in 1..numFeature |-> FmtE(Flatten(data)[j], n)]]]

\* saveMean('CIFAR-10_mean.xml', dataMean)
SaveMean ==
  /\ pc = "save_mean"
  /\ mean_xml' = <<saveMean(meanImg, TrainCount)>>
  /\ present' = present \cup {"CIFAR-10_mean.xml"}
  /\ pc' = "cell6"
  /\ UNCHANGED <<train_map, test_map, k, foldername, mapItems, images, imageWrites>>
  /\ UNCHANGED <<fetchVars, sparkVars, meanVars, inputVars>>

\* ------------------------------------------------ cell 6: the test split
\* foldername = 'test'; mapItems = []; open('test_map.txt', 'w'); then open
\* and unpickle test_batch, which may fail.
TestOpen ==
  /\ pc = "cell6"
  /\ foldername' = "test"
  /\ mapItems' = <<>>
  /\ present' = present \cup {"test_map.txt"}
  /\ test_map' = <<>>
  /\ k' = 0
  /\ \E ok \in BOOLEAN : pc' = IF ok /\ BatchFileExists THEN "test_loop" ELSE "aborted"
  /\ UNCHANGED <<train_map, mean_xml, images, imageWrites>>
  /\ UNCHANGED <<fetchVars, sparkVars, meanVars, inputVars>>

\* One iteration of lines 269-272; img.save may fail.
TestSaveImage ==
  /\ pc = "test_loop"
  /\ k < RowsPerBatch
  /\ LET fname == ImagePath(cwd, foldername, k)
         label == DataLabel(seed, TestFile, k)
     IN \E ok \in BOOLEAN :
          IF ok
          THEN /\ images' = (fname :> SavedAs(TestFile, k, TestPad)) @@ images
               /\ imageWrites' = imageWrites \cup
                    {[path |-> fname, t |-> 0, file |-> TestFile, i |-> k, index |-> k]}
               /\ mapItems' = AppendLine(mapItems, fname, label)
               /\ k' = k + 1
               /\ pc' = pc
          ELSE /\ pc' = "aborted"
               /\ UNCHANGED <<images, imageWrites, mapItems, k>>
  /\ UNCHANGED <<foldername>>
  /\ UNCHANGED <<fetchVars, sparkVars, outVars, meanVars, inputVars>>

\* with open('test_map.txt', 'w') as mapFile: mapFile.writelines(mapItems)
TestWriteMap ==
  /\ pc = "test_loop"
  /\ k = RowsPerBatch
  /\ test_map' = writelines(<<>>, mapItems)
  /\ present' = present \cup {"test_map.txt"}
  /\ pc' = "done"
  /\ UNCHANGED <<train_map, mean_xml, k, foldername, mapItems, images, imageWrites>>
  /\ UNCHANGED <<fetchVars, sparkVars, meanVars, inputVars>>

Unit == \E t \in Tasks : UnitStart(t) \/ UnitSaveImage(t) \/ UnitReturn(t)

Next ==
  \/ FetchCopy
  \/ Cell3
  \/ SubmitJob
  \/ Unit
  \/ Collect
  \/ CollectRaise
  \/ OpenTrainMap
  \/ WriteFragment
  \/ MeanInit
  \/ MeanAdd
  \/ MeanDivide
  \/ SaveMean
  \/ TestOpen
  \/ TestSaveImage
  \/ TestWriteMap

Spec == Init /\ [][Next]_vars

\* ------------------------------------------- a single saveImage call
\* saveImage(filename, data, label, pad) or saveImage(..., mean=dataMean)
\* on any row of any batch file, with any pad up to MaxPad.
InitImage ==
  /\ InitCommon
  /\ seed \in Seeds
  /\ pc = "image_call"
  /\ fetchMode = "copy"
  /\ cwd = HomeDir
  /\ cwd0 = cwd
  /\ call \in [file : FileIds, i : Rows, pad : 0..MaxPad, mean : BOOLEAN]

SaveImageCall ==
  /\ pc = "image_call"
  /\ LET data == DataRow(seed, call.file, call.i)
     IN /\ dataMean' = IF call.mean THEN AddGrid(dataMean, reshape(data)) ELSE dataMean
        /\ img' = <<saveImage(data, call.pad)>>
        /\ images' = (ImagePath(cwd, "train", call.i) :> SavedAs(call.file, call.i, call.pad)) @@ images
  /\ pc' = "image_done"
  /\ UNCHANGED <<meanImg, foldername, k, mapItems, imageWrites>>
  /\ UNCHANGED <<fetchVars, sparkVars, outVars, seed, fetchMode, cwd0, call>>

SpecImage == InitImage /\ [][SaveImageCall]_vars

\* =====================================================================
\* Properties
\* =====================================================================

\* Values the properties compare against, computed from the dataset alone.
RECURSIVE SumEntry(_, _, _, _)
SumEntry(s, file, n, j) ==
  IF n = 0 THEN 0 ELSE SumEntry(s, file, n - 1, j) + DataByte(s, file, n - 1, j)

SumRowsTable ==
  [s \in Seeds |-> [file \in FileIds |-> [n \in 0..RowsPerBatch |->
     [c \in Chan |-> [y \in Px |-> [x \in Px |->
        SumEntry(s, file, n, c * imgSize * imgSize + y * imgSize + x)]]]]]]

\* Elementwise sum of the unpadded grids of rows 0 .. n-1 of a batch file.
SumRows(s, file, n) == SumRowsTable[s][file][n]

TrainDir == cwd0 \o <<"train">>
TestDir == cwd0 \o <<"test">>
TrainPathOf(n) == [dir |-> TrainDir, name |-> Fmt05d(n), ext |-> "png"]
TestPathOf(n) == [dir |-> TestDir, name |-> Fmt05d(n), ext |-> "png"]

\* The first n manifest lines a unit owes for batch b.
ExpectedLines(s, b, n) ==
  [j \in 1..n |-> [path |-> TrainPathOf((j - 1) + (b - 1) * RowsPerBatch),
                   label |-> DataLabel(s, b, j - 1)]]

RECURSIVE FromDigits(_)
FromDigits(d) ==
  IF Len(d) = 0 THEN 0 ELSE 10 * FromDigits(SubSeq(d, 1, Len(d) - 1)) + d[Len(d)]

LineIndex(line) == FromDigits(line.path.name)
LineBatch(line) == (LineIndex(line) \div RowsPerBatch) + 1
LineLocal(line) == LineIndex(line) % RowsPerBatch

TrainWrites == {w \in imageWrites : w.t # 0}
ReturnedTasks == {t \in DOMAIN task : task[t].pc = "returned"}
FailedTasks == {t \in DOMAIN task : task[t].pc = "failed"}
RunningTasks == {t \in DOMAIN task : task[t].pc = "running"}
FetchEnded == pc \in {"cell3", "aborted"}

\* ---------------------------------------------------------------- C1
\* C1: in every interleaving of the units, two image writes that target the
\* same training path are the same work item of the same unit; distinct
\* work items (batch, local index) get distinct global indices and paths;
\* every global index is i + (b-1)*RowsPerBatch and lies in 0..TrainCount-1.
C1_NoFilenameCollision ==
  /\ \A w1, w2 \in TrainWrites :
       /\ w1.path = w2.path => (w1.t = w2.t /\ w1.file = w2.file /\ w1.i = w2.i)
       /\ (w1.file # w2.file \/ w1.i # w2.i) => (w1.index # w2.index /\ w1.path # w2.path)
  /\ \A w \in TrainWrites :
       /\ w.file \in 1..5
       /\ w.i \in 0..(RowsPerBatch - 1)
       /\ w.index = w.i + (w.file - 1) * RowsPerBatch
       /\ w.index \in 0..(5 * RowsPerBatch - 1)

\* Every work item of all five units has written its file.
C1_Witness ==
  /\ pc = "collecting"
  /\ {<<w.file, w.i>> : w \in TrainWrites} = (1..5) \X (0..(RowsPerBatch - 1))

\* ---------------------------------------------------------------- C2
\* C2: no unit is entered more than once; once collect() has returned (no
\* unit failed), every identifier in 1..5 belongs to exactly one unit, that
\* unit ran exactly once, and image_rdd holds exactly five pairs, exactly
\* one of them the (manifest fragment, pixel sum) of each identifier.
C2_ExactlyOnce ==
  /\ \A t \in DOMAIN task : runs[t] <= 1
  /\ pc \in {"open_train", "write_train", "mean_sum", "save_mean", "cell6", "test_loop", "done"} =>
       /\ Len(image_rdd) = 5
       /\ \A b \in 1..5 :
            /\ Cardinality({t \in DOMAIN task : batch_file_names[t] = b}) = 1
            /\ \A t \in DOMAIN task : batch_file_names[t] = b => runs[t] = 1
            /\ Cardinality({j \in 1..Len(image_rdd) :
                 image_rdd[j] = <<ExpectedLines(seed, b, RowsPerBatch),
                                  SumRows(seed, b, RowsPerBatch)>>}) = 1

\* collect() has returned and the unit of batch 5 completed first.
C2_Witness ==
  /\ pc = "open_train"
  /\ image_rdd[1][1] = ExpectedLines(seed, 5, RowsPerBatch)

\* ---------------------------------------------------------------- C3
RECURSIVE SumOver(_, _, _, _)
SumOver(J, c, y, x) ==
  IF J = {} THEN 0
  ELSE LET j == CHOOSE j \in J : TRUE
       IN image_rdd[j][2][c][y][x] + SumOver(J \ {j}, c, y, x)

Channel0Grid(v) == [c \in Chan |-> [y \in Px |-> [x \in Px |-> IF c = 0 THEN v ELSE 0]]]

\* The mean of a zero accumulator and one with channel 0 at 100, over 2 images.
MeanOfTwo ==
  DivideGrid(AddGrid(AddGrid(ZeroGrid, ZeroGrid), Channel0Grid(100)), 2)
    = [c \in Chan |-> [y \in Px |-> [x \in Px |-> IF c = 0 THEN <<50, 0>> ELSE <<0, 0>>]]]

\* C3: once the coordinator has divided, the mean is, entry by entry, the
\* exact quotient by TrainCount of the sum of the five collected
\* accumulators, and of the sum of all training rows, whatever the order of
\* image_rdd; while summing, dataMean is the sum of the accumulators taken
\* so far.  Special case: a zero accumulator plus one with channel 0 at 100,
\* divided by 2, is 50 in channel 0 and 0 elsewhere.
C3_MeanOrderIndependent ==
  /\ pc = "mean_sum" =>
       \A c \in Chan, y \in Px, x \in Px :
          dataMean[c][y][x] = SumOver(1..(k - 1), c, y, x)
  /\ (pc = "save_mean" \/ "CIFAR-10_mean.xml" \in present) =>
       \A c \in Chan, y \in Px, x \in Px :
          LET total == SumOver(1..Len(image_rdd), c, y, x)
              j == c * imgSize * imgSize + y * imgSize + x
              fromData == SumEntry(seed, 1, RowsPerBatch, j) + SumEntry(seed, 2, RowsPerBatch, j)
                          + SumEntry(seed, 3, RowsPerBatch, j) + SumEntry(seed, 4, RowsPerBatch, j)
                          + SumEntry(seed, 5, RowsPerBatch, j)
          IN /\ total = fromData
             /\ meanImg[c][y][x] = <<total \div (5 * RowsPerBatch), total % (5 * RowsPerBatch)>>
  /\ MeanOfTwo

\* The mean has been computed from accumulators collected out of batch order.
C3_Witness ==
  /\ pc = "save_mean"
  /\ image_rdd[1][2] = SumRows(seed, 5, RowsPerBatch)
  /\ image_rdd[5][2] = SumRows(seed, 1, RowsPerBatch)
  /\ meanImg # ZeroMean

\* ---------------------------------------------------------------- C4
\* C4: a unit that has not started holds an all-zero accumulator; a running
\* unit that has done n rows holds exactly the sum of the unpadded grids of
\* rows 0..n-1 of its own batch and the n manifest lines of those rows,
\* whatever the other units have done in between; every returned pair is
\* the full sum and fragment of one batch; and the coordinator merges only
\* after collect() has returned all five results.
C4_AccumulatorIsolation ==
  /\ \A t \in DOMAIN task :
       /\ task[t].pc = "idle" => acc[t] = ZeroGrid
       /\ task[t].pc = "running" =>
            /\ acc[t] = SumRows(seed, batch_file_names[t], task[t].i)
            /\ task[t].mapFileArray = ExpectedLines(seed, batch_file_names[t], task[t].i)
  /\ \A j \in 1..Len(returned) :
       \E b \in 1..5 : returned[j] = <<ExpectedLines(seed, b, RowsPerBatch),
                                       SumRows(seed, b, RowsPerBatch)>>
  /\ (pc \in {"mean_sum", "save_mean"} \/ dataMean # ZeroGrid) =>
       /\ ReturnedTasks = DOMAIN task
       /\ Len(image_rdd) = 5
       /\ image_rdd = returned

\* Two units are both part-way through their rows at the same time.
C4_Witness ==
  \E t1, t2 \in RunningTasks :
     /\ t1 # t2
     /\ task[t1].i = 1
     /\ task[t2].i = RowsPerBatch
     /\ acc[t1] # acc[t2]

\* ---------------------------------------------------------------- C5
\* C5: at every moment of writing train_map.txt, for every order of
\* image_rdd: two lines of the same batch appear in increasing local index,
\* the lines of a batch are contiguous (no line of another batch between
\* them), and a batch is present either not at all or with all of its
\* lines, local indices 0..RowsPerBatch-1.
C5_WithinBatchOrder ==
  "train_map.txt" \in present =>
    /\ \A p \in 1..Len(train_map), q \in 1..Len(train_map) :
         (p < q /\ LineBatch(train_map[p]) = LineBatch(train_map[q])) =>
           /\ LineLocal(train_map[p]) < LineLocal(train_map[q])
           /\ \A r \in p..q : LineBatch(train_map[r]) = LineBatch(train_map[p])
    /\ \A p \in 1..Len(train_map) :
         LET b == LineBatch(train_map[p])
         IN /\ b \in 1..5
            /\ {LineLocal(train_map[q]) : q \in {r \in 1..Len(train_map) : LineBatch(train_map[r]) = b}}
                 = 0..(RowsPerBatch - 1)
            /\ p - LineLocal(train_map[p]) >= 1
            /\ \A d \in 0..(RowsPerBatch - 1) :
                 /\ p - LineLocal(train_map[p]) + d <= Len(train_map)
                 /\ LineBatch(train_map[p - LineLocal(train_map[p]) + d]) = b
                 /\ LineLocal(train_map[p - LineLocal(train_map[p]) + d]) = d

\* The whole manifest is written and its first fragment is not batch 1's.
C5_Witness ==
  /\ pc = "write_train"
  /\ Len(train_map) = 5 * RowsPerBatch
  /\ LineBatch(train_map[1]) = 3
  /\ LineBatch(train_map[Len(train_map)]) = 2

\* ---------------------------------------------------------------- C7
\* C7: while any unit has failed, collect() has not returned (image_rdd is
\* unset and the coordinator is still collecting or has stopped) and
\* neither train_map.txt nor CIFAR-10_mean.xml exists; either file exists
\* only when all five units have returned.
C7_FailureIsFatal ==
  /\ FailedTasks # {} =>
       /\ pc \in {"collecting", "aborted"}
       /\ image_rdd = <<>>
       /\ "train_map.txt" \notin present
       /\ "CIFAR-10_mean.xml" \notin present
  /\ ("train_map.txt" \in present \/ "CIFAR-10_mean.xml" \in present \/ image_rdd # <<>>) =>
       /\ Cardinality(ReturnedTasks) = 5
       /\ FailedTasks = {}

\* One unit failed after the four others had returned, and collect() raised.
C7_Witness ==
  /\ pc = "aborted"
  /\ Cardinality(FailedTasks) = 1
  /\ Cardinality(ReturnedTasks) = 4
  /\ Len(returned) = 4

\* ---------------------------------------------------------------- C8
\* C8: for every pad p in 0..MaxPad and every row, the raster saveImage
\* builds is (imgSize+2p) x (imgSize+2p); a pixel outside the central
\* window is (128, 128, 128); the pixel at (x, y) inside it is the three
\* channel values of the flat row at source row y-p, column x-p.  With the
\* training pad the raster is (imgSize+8) square, with the test pad it is
\* imgSize square and has no border pixel.
C8_PaddingLaw ==
  pc = "image_done" =>
    LET r == img[1]
        p == call.pad
        row == DataRow(seed, call.file, call.i)
        w == imgSize + 2 * p
        inside(x, y) == x >= p /\ x < p + imgSize /\ y >= p /\ y < p + imgSize
    IN /\ r.size = <<w, w>>
       /\ DOMAIN r.pixels = 0..(w - 1)
       /\ \A x \in 0..(w - 1) :
            /\ DOMAIN r.pixels[x] = 0..(w - 1)
            /\ \A y \in 0..(w - 1) :
                 IF inside(x, y)
                 THEN r.pixels[x][y] =
                        <<row[(y - p) * imgSize + (x - p)],
                          row[imgSize * imgSize + (y - p) * imgSize + (x - p)],
                          row[2 * imgSize * imgSize + (y - p) * imgSize + (x - p)]>>
                 ELSE r.pixels[x][y] = <<128, 128, 128>>
       /\ TrainPad = 4 /\ TestPad = 0
       /\ p = TrainPad => r.size = <<imgSize + 8, imgSize + 8>>
       /\ p = TestPad =>
            /\ r.size = <<imgSize, imgSize>>
            /\ \A x \in 0..(w - 1), y \in 0..(w - 1) : inside(x, y)

\* A padded raster whose window holds pixels that differ from the border
\* and from their own transposes.
C8_Witness ==
  /\ pc = "image_done"
  /\ call.pad = 4
  /\ img[1].pixels[0][0] = <<128, 128, 128>>
  /\ img[1].pixels[4][5] # img[1].pixels[5][4]
  /\ img[1].pixels[4][4] # <<128, 128, 128>>

\* ---------------------------------------------------------------- C9
\* C9: once train_map.txt is complete it has TrainCount lines whose paths
\* are exactly the TrainCount training paths, each once; once test_map.txt
\* is complete it has RowsPerBatch lines whose paths are exactly the test
\* paths, each once; every line's path names an image file on disk, and the
\* line's label is the label stored at the index of the pixel row that was
\* written to that file.
LabelMatches(line) ==
  /\ line.path \in DOMAIN images
  /\ line.label = DataLabel(seed, images[line.path].file, images[line.path].i)

C9_ManifestComplete ==
  /\ pc \in {"mean_sum", "save_mean", "cell6", "test_loop", "done"} =>
       /\ Len(train_map) = 5 * RowsPerBatch
       /\ {train_map[j].path : j \in 1..Len(train_map)}
            = {TrainPathOf(n) : n \in 0..(5 * RowsPerBatch - 1)}
       /\ Cardinality({TrainPathOf(n) : n \in 0..(5 * RowsPerBatch - 1)}) = 5 * RowsPerBatch
       /\ \A j \in 1..Len(train_map) :
            /\ LabelMatches(train_map[j])
            /\ images[train_map[j].path].file \in 1..5
            /\ images[train_map[j].path].pad = 4
  /\ pc = "done" =>
       /\ Len(test_map) = RowsPerBatch
       /\ {test_map[j].path : j \in 1..Len(test_map)}
            = {TestPathOf(n) : n \in 0..(RowsPerBatch - 1)}
       /\ Cardinality({TestPathOf(n) : n \in 0..(RowsPerBatch - 1)}) = RowsPerBatch
       /\ \A j \in 1..Len(test_map) :
            /\ LabelMatches(test_map[j])
            /\ images[test_map[j].path].file = TestFile
            /\ images[test_map[j].path].pad = 0

\* The notebook has run to its end.
C9_Witness ==
  /\ pc = "done"
  /\ Len(train_map) = 5 * RowsPerBatch
  /\ Len(test_map) = RowsPerBatch
  /\ train_map[1].label # train_map[2].label

\* ---------------------------------------------------------------- C6
\* C6: when the fetch cell has ended after obtaining the archive, whether
\* extraction succeeded or raised, no archive copy remains on disk, on the
\* download path and on the local-copy path alike.
C6_NoArchiveCopyLeft ==
  (FetchEnded /\ obtained) => archives = {}

\* ---------------------------------------------------------------- C10
\* C10: on every path through the try/finally block of the fetch cell the
\* working directory after the block is the working directory before it.
C10_CwdRestored ==
  FetchEnded => cwd = cwd0

====
